---- MODULE Spec2Model ----
(***************************************************************************)
(* Model of the ElevenLabs music MCP server's two stateful components:     *)
(*   - MusicGenerator     (src/src/music_generator.py)                     *)
(*   - PreferenceLearner  (src/src/preference_learner.py)                  *)
(*                                                                         *)
(* Python values are encoded as follows.                                   *)
(*   Optional[T]  : None is <<>>, a value x is <<x>>.                      *)
(*   str built by an f-string : the sequence of its pieces, so that        *)
(*                  f"Unexpected error: {e}" is <<"Unexpected error: ">>   *)
(*                  followed by the pieces of str(e).                      *)
(*   a JSON object member : [t |-> "absent" | "null" | "str", v |-> text]; *)
(*                  in a preference file also "bool" and "num", v being    *)
(*                  the token as written.                                  *)
(*   a file       : [state |-> "missing" | "ok" | "malformed", data |-> d],*)
(*                  d the JSON array of a file whose text is JSON.         *)
(***************************************************************************)
EXTENDS Integers, Sequences, FiniteSets, TLC

VARIABLES
    max_retries,      \* MusicGenerator.max_retries
    session,          \* MusicGenerator.session: "None", "open" or "closed"
    op,               \* the public entry point called last ("none" before any call)
    session_at_call,  \* what self.session was when that call was made
    args,             \* the arguments of that call
    server,           \* how the remote API answers the requests of that call
    sent,             \* the payloads of the outbound requests issued by that call
    slept,            \* the asyncio.sleep durations of that call
    ret,              \* Optional: the MusicResult the call returned
    raised,           \* Optional: the exception that escaped the call
    script,           \* how the remote API answers each attempt of the retry helper
    returned,         \* Optional: the response the retry helper returned
    leaked,           \* a session the generator created is open and no longer self.session
    tool,             \* the arguments of the tool call made last
    steps,            \* what that tool call did, in order
    tool_result,      \* Optional: the dict that tool call returned
    second,           \* self.preferences of a second learner on the same storage path
    preferences,      \* PreferenceLearner.preferences: the in-memory records
    preferences_file, \* the content of <storage_path>/preferences.json
    disk,             \* what writing a file meets: "ok", "readonly" or "full"
    query,            \* the arguments of the last get_recommendations call
    recommendations,  \* Optional: the list that call returned
    clock,            \* datetime.now(), in days
    export_file,      \* the content of the file export_path / import_path names
    exported,         \* Optional: self.preferences when export_file was last exported
    store_op,         \* the PreferenceLearner call just made
    escaped,          \* Optional: the exception class that escaped that call
    favorites,        \* Optional: what get_favorite_moods / _activities returned
    statistics,       \* Optional: what get_statistics returned
    generated         \* Optional: the arguments of the record_generation call just made

gen_vars == <<max_retries, session, op, session_at_call, args, server, sent, slept, ret, raised,
              script, returned, leaked>>
store_vars == <<preferences, preferences_file, disk, query, recommendations, clock,
                export_file, exported, store_op, escaped, favorites, statistics,
                generated>>
other_vars == <<tool, steps, tool_result, second>>
vars == <<gen_vars, store_vars, other_vars>>

(***************************************************************************)
(* Bounds of the model.                                                    *)
(***************************************************************************)
MaxRetriesBound == 3      \* max_retries ranges over 1..MaxRetriesBound
MaxPrefs == 4             \* records the preference store holds at most
MaxStored == 2            \* the same, where the files are followed as well

----------------------------------------------------------------------------
(***************************************************************************)
(* Python values.                                                          *)
(***************************************************************************)
None == <<>>
Some(x) == <<x>>

\* str(x) as an f-string renders an Optional[str].
Str(x) == IF x = None THEN "None" ELSE x[1]

Absent == [t |-> "absent", v |-> ""]
Null == [t |-> "null", v |-> ""]
JStr(s) == [t |-> "str", v |-> s]

\* dict.get(key, default): the default only replaces a member that is absent;
\* a member that is present and null yields None.
Get(member, default) ==
    IF member.t = "absent" THEN default
    ELSE IF member.t = "null" THEN None
    ELSE Some(member.v)

----------------------------------------------------------------------------
(***************************************************************************)
(* The remote API: what one outbound request is answered with.             *)
(***************************************************************************)
NoJson == [shape |-> "none", type |-> Absent, message |-> Absent,
           suggested_prompt |-> Absent]

\* The body of a 400 response: not JSON at all, a JSON object without an
\* "error" member, a JSON object whose "error" member is not an object, or
\* {"error": {type?, message?, suggested_prompt?}}.
ErrorBodies ==
    { [shape |-> s, type |-> Absent, message |-> Absent, suggested_prompt |-> Absent] :
        s \in {"invalid", "no_error", "error_not_object"} }
    \cup
    [ shape : {"object"},
      type : {Absent, JStr("bad_prompt"), JStr("validation_error")},
      message : {Absent, Null, JStr("Copyrighted content detected")},
      suggested_prompt : {Absent, JStr("gentle piano music"), JStr("soft jazz")} ]

Response(status, body, plan_header, json, text) ==
    [kind |-> "response", status |-> status, body |-> body,
     plan_header |-> plan_header, json |-> json, text |-> text]

\* A request that ends without a response: aiohttp.ClientError or
\* asyncio.TimeoutError raised by the transport.
TransportFailure(cls) ==
    [kind |-> cls, status |-> 0, body |-> "", plan_header |-> "absent",
     json |-> NoJson, text |-> ""]

Responses200 ==
    { Response(200, b, h, NoJson, "") :
        b \in {"fake audio data", "audio"}, h \in {"absent", "valid", "malformed"} }
Responses400 == { Response(400, "", "absent", j, "") : j \in ErrorBodies }
Responses429 == { Response(429, "", "absent", NoJson, "Rate limit exceeded") }
Responses401 == { Response(401, "", "absent", NoJson, "Unauthorized") }
ResponsesOther ==
    { Response(s, "", "absent", NoJson, "Internal error") : s \in {404, 500} }
TransportFailures == { TransportFailure(c) : c \in {"ClientError", "TimeoutError"} }

Answers ==
    Responses200 \cup Responses400 \cup Responses429 \cup Responses401
    \cup ResponsesOther \cup TransportFailures

\* A server answers the first request of a call with `first` and every later
\* request of that call with `rest`.
Transient == Responses429 \cup TransportFailures
AfterTransient ==
    { Response(200, "audio", "absent", NoJson, "") }
    \cup Responses429 \cup Responses401 \cup TransportFailures
Servers ==
    { [first |-> a, rest |-> a] : a \in Answers }
    \cup { [first |-> a, rest |-> b] : a \in Transient, b \in AfterTransient }

Answer(srv, attempt) == IF attempt = 0 THEN srv.first ELSE srv.rest
AnswersEvery(srv, S) == srv.first \in S /\ srv.rest \in S

----------------------------------------------------------------------------
(***************************************************************************)
(* MusicResult and the exceptions.                                         *)
(***************************************************************************)
MusicResult(success, audio_data, composition_plan, duration_ms, error, suggested_prompt) ==
    [success |-> success, audio_path |-> None, audio_data |-> audio_data,
     composition_plan |-> composition_plan, duration_ms |-> duration_ms,
     error |-> error, suggested_prompt |-> suggested_prompt]

Failure(error, suggested_prompt) ==
    MusicResult(FALSE, None, None, None, error, suggested_prompt)

Exc(cls, msg) == [cls |-> cls, msg |-> msg, suggestion |-> None]

\* A str value as the text of a message.
Text(x) == IF x = None THEN None ELSE Some(<<x[1]>>)

\* What a block of code ends with: a value it returns or an exception it raises.
Return(x) == [tag |-> "return", val |-> Some(x), exc |-> None]
Raise(e) == [tag |-> "raise", val |-> None, exc |-> Some(e)]

----------------------------------------------------------------------------
(***************************************************************************)
(* MusicGenerator.                                                         *)
(***************************************************************************)
Prompts == {"lo-fi beats for coding", "Beatles song"}
Durations == {None, Some(45000)}
Plans == {"two-section plan"}
OutputFormat == "mp3_44100_128"
DefaultMaxRetries == 3

SimpleArgs(prompt, duration_ms) ==
    [prompt |-> Some(prompt), duration_ms |-> duration_ms,
     composition_plan |-> None, strict_duration |-> None]
StructuredArgs(composition_plan, strict_duration) ==
    [prompt |-> None, duration_ms |-> None,
     composition_plan |-> Some(composition_plan),
     strict_duration |-> Some(strict_duration)]
NoArgs ==
    [prompt |-> None, duration_ms |-> None, composition_plan |-> None,
     strict_duration |-> None]

\* The JSON payload of a request: a key the code does not set is None.
Payload(a) ==
    [prompt |-> a.prompt, composition_plan |-> a.composition_plan,
     output_format |-> OutputFormat, duration_ms |-> a.duration_ms,
     strict_duration |-> a.strict_duration]

\* `except Exception`: every exception the body can raise derives from
\* Exception (asyncio.TimeoutError and aiohttp.ClientError included).
ExceptionClasses ==
    {"AttributeError", "RuntimeError", "ClientError", "TimeoutError",
     "JSONDecodeError", "CopyrightError", "RateLimitError", "APIError"}

\* A handler that catches the transport errors only, as the retry helper's does.
IsTransportError(cls) == cls \in {"ClientError", "TimeoutError"}

IsException(cls) == cls \in ExceptionClasses

TransportMessage(cls) ==
    IF cls = "ClientError" THEN <<"Cannot connect to host">> ELSE <<"">>

\* A request that is issued again, after a backoff sleep, for as long as the
\* answer is not a 200 and attempts remain.
RECURSIVE post_retrying_from(_, _, _)
post_retrying_from(srv, payload, attempt) ==
    LET a == Answer(srv, attempt)
        reply == IF a.kind = "response" THEN Return(a)
                 ELSE Raise(Exc(a.kind, TransportMessage(a.kind)))
    IN  IF (a.kind = "response" /\ a.status = 200) \/ attempt >= max_retries - 1
        THEN [sent |-> <<payload>>, slept |-> <<>>, reply |-> reply]
        ELSE LET r == post_retrying_from(srv, payload, attempt + 1)
             IN  [sent |-> <<payload>> \o r.sent,
                  slept |-> <<2 ^ attempt>> \o r.slept, reply |-> r.reply]

post_retrying(sess, srv, payload) ==
    IF sess # "open"
    THEN [sent |-> <<>>, slept |-> <<>>,
          reply |-> Raise(Exc("AttributeError", <<"no session">>))]
    ELSE post_retrying_from(srv, payload, 0)

\* self.session.post(url, json=payload, headers=headers): one request on the
\* generator's session. With no session the attribute lookup on None fails;
\* on a closed session aiohttp refuses the request.
post(sess, srv, payload) ==
    IF sess = "None"
    THEN [sent |-> <<>>, slept |-> <<>>,
          reply |-> Raise(Exc("AttributeError",
                              <<"'NoneType' object has no attribute 'post'">>))]
    ELSE IF sess = "closed"
    THEN [sent |-> <<>>, slept |-> <<>>,
          reply |-> Raise(Exc("RuntimeError", <<"Session is closed">>))]
    ELSE LET a == Answer(srv, 0)
         IN  [sent |-> <<payload>>, slept |-> <<>>,
              reply |-> IF a.kind = "response" THEN Return(a)
                        ELSE Raise(Exc(a.kind, TransportMessage(a.kind)))]

\* error_data = await response.json(); error_info = error_data.get('error', {}).
\* Raises when the body is not JSON or when "error" is not an object.
error_info_of(response) ==
    IF response.json.shape \in {"invalid", "none"}
    THEN Raise(Exc("JSONDecodeError", <<"Expecting value">>))
    ELSE IF response.json.shape = "error_not_object"
    THEN Raise(Exc("AttributeError", <<"object has no attribute 'get'">>))
    ELSE Return(response.json)

\* A bad_prompt rejection that drops the suggestion.
bad_prompt_result_no_suggestion(error_info) ==
    Failure(Some(<<"Copyright detected: ", Str(Get(error_info.message, None))>>), None)

\* generate_simple, the bad_prompt branch of a 400 response.
bad_prompt_result(error_info) ==
    Failure(Some(<<"Copyright detected: ", Str(Get(error_info.message, None))>>),
            Get(error_info.suggested_prompt, Some("")))

\* generate_simple, the body of `async with ... as response`.
simple_response(response, duration_ms) ==
    IF response.status = 200 THEN
        IF response.plan_header = "malformed"
        THEN Raise(Exc("JSONDecodeError", <<"Expecting value">>))
        ELSE Return(MusicResult(TRUE, Some(response.body),
                        Some(IF response.plan_header = "valid"
                             THEN "plan from header" ELSE "{}"),
                        duration_ms, None, None))
    ELSE IF response.status = 400 THEN
        LET e == error_info_of(response)
        IN  IF e.tag = "raise" THEN e
            ELSE IF Get(e.val[1].type, None) = Some("bad_prompt")
            THEN Return(bad_prompt_result(e.val[1]))
            ELSE Return(Failure(Text(Get(e.val[1].message, Some("Bad request"))), None))
    ELSE IF response.status = 429 THEN
        Return(Failure(Some(<<"Rate limit exceeded. Please try again in a moment.">>), None))
    ELSE IF response.status = 401 THEN
        Return(Failure(Some(<<"Invalid API key. Please check your ELEVENLABS_API_KEY.">>), None))
    ELSE
        Return(Failure(Some(<<"API error (", ToString(response.status), "): ",
                              response.text>>), None))

\* generate_simple, the except clauses.
simple_handlers(body) ==
    IF body.tag = "return" THEN body
    ELSE LET e == body.exc[1]
         IN  IF e.cls = "CopyrightError"
             THEN Return(Failure(Some(e.msg), e.suggestion))
             ELSE IF e.cls = "RateLimitError"
             THEN Return(Failure(Some(e.msg), None))
             ELSE IF IsException(e.cls)
             THEN Return(Failure(Some(<<"Unexpected error: ">> \o e.msg), None))
             ELSE body

\* generate_structured, the body of `async with ... as response`.
structured_response(response, composition_plan) ==
    IF response.status = 200 THEN
        Return(MusicResult(TRUE, Some(response.body), Some(composition_plan),
                           None, None, None))
    ELSE IF response.status = 400 THEN
        LET e == error_info_of(response)
        IN  IF e.tag = "raise" THEN e
            ELSE Return(Failure(Text(Get(e.val[1].message, Some("Bad request"))), None))
    ELSE
        Return(Failure(Some(<<"API error (", ToString(response.status), "): ",
                              response.text>>), None))

\* generate_structured, the except clause.
structured_handlers(body) ==
    IF body.tag = "return" THEN body
    ELSE LET e == body.exc[1]
         IN  IF IsException(e.cls)
             THEN Return(Failure(Some(<<"Unexpected error: ">> \o e.msg), None))
             ELSE body

\* What generate_simple does on a generator whose session is sess against
\* server srv: the requests it issues, the sleeps it takes and how it ends.
simple_run(sess, prompt, duration_ms, srv) ==
    LET p == post(sess, srv, Payload(SimpleArgs(prompt, duration_ms)))
        body == IF p.reply.tag = "raise" THEN p.reply
                ELSE simple_response(p.reply.val[1], duration_ms)
    IN  [sent |-> p.sent, slept |-> p.slept, out |-> simple_handlers(body)]

structured_run(sess, composition_plan, strict_duration, srv) ==
    LET p == post(sess, srv, Payload(StructuredArgs(composition_plan, strict_duration)))
        body == IF p.reply.tag = "raise" THEN p.reply
                ELSE structured_response(p.reply.val[1], composition_plan)
    IN  [sent |-> p.sent, slept |-> p.slept, out |-> structured_handlers(body)]

generate_simple(prompt, duration_ms, srv) ==
    LET r == simple_run(session, prompt, duration_ms, srv)
    IN  /\ op' = "generate_simple"
        /\ session_at_call' = session
        /\ args' = SimpleArgs(prompt, duration_ms)
        /\ server' = srv
        /\ sent' = r.sent
        /\ slept' = r.slept
        /\ ret' = r.out.val
        /\ raised' = r.out.exc
        /\ UNCHANGED <<max_retries, session, script, returned, leaked, store_vars, other_vars>>

generate_structured(composition_plan, strict_duration, srv) ==
    LET r == structured_run(session, composition_plan, strict_duration, srv)
    IN  /\ op' = "generate_structured"
        /\ session_at_call' = session
        /\ args' = StructuredArgs(composition_plan, strict_duration)
        /\ server' = srv
        /\ sent' = r.sent
        /\ slept' = r.slept
        /\ ret' = r.out.val
        /\ raised' = r.out.exc
        /\ UNCHANGED <<max_retries, session, script, returned, leaked, store_vars, other_vars>>

\* async with generator: a new session replaces whatever self.session held;
\* a session that was open is not closed and stays open.
aenter ==
    /\ session' = "open"
    /\ leaked' = (leaked \/ session = "open")
    /\ UNCHANGED <<max_retries, op, session_at_call, args, server, sent, slept,
                   ret, raised, script, returned, store_vars, other_vars>>

\* leaving the context: the session, if there is one, is closed.
aexit ==
    /\ session' = IF session = "None" THEN "None" ELSE "closed"
    /\ UNCHANGED <<max_retries, op, session_at_call, args, server, sent, slept,
                   ret, raised, script, returned, leaked, store_vars, other_vars>>

----------------------------------------------------------------------------
(***************************************************************************)
(* MusicGenerator._make_request_with_retry.                                *)
(***************************************************************************)
\* What one attempt of the helper is answered with: an answer of the remote
\* API, the Retry-After header of a 429 and whether the Content-Type of the
\* response is application/json.
Scripted(answer, retry_after, json_type) ==
    [answer |-> answer, retry_after |-> retry_after, json_type |-> json_type]

RetryAfterSeconds == {7}
HttpDate == "Wed, 21 Oct 2026 07:28:00 GMT"

BadPrompt ==
    [shape |-> "object", type |-> JStr("bad_prompt"),
     message |-> JStr("Copyrighted content detected"),
     suggested_prompt |-> JStr("gentle piano music")]
ValidationError ==
    [shape |-> "object", type |-> JStr("validation_error"), message |-> Absent,
     suggested_prompt |-> Absent]
HtmlPage ==
    [shape |-> "invalid", type |-> Absent, message |-> Absent,
     suggested_prompt |-> Absent]

ScriptedAnswers ==
    { Scripted(Response(200, "audio", "absent", NoJson, ""), Absent, FALSE) }
    \cup { Scripted(a, h, FALSE) :
              a \in Responses429, h \in {Absent, JStr("7"), JStr(HttpDate)} }
    \cup { Scripted(Response(400, "", "absent", j, ""), Absent, TRUE) :
              j \in {BadPrompt, ValidationError} }
    \cup { Scripted(Response(400, "", "absent", HtmlPage, ""), Absent, FALSE) }
    \cup { Scripted(a, Absent, FALSE) : a \in Responses401 }
    \cup { Scripted(Response(500, "", "absent", NoJson, "Internal error"), Absent, FALSE) }
    \cup { Scripted(a, Absent, FALSE) : a \in TransportFailures }

NoScript == <<>>

\* The exceptions of the helper: APIError carries a status_code,
\* CopyrightError a suggestion.
Error(cls, msg, suggestion, status_code) ==
    [cls |-> cls, msg |-> msg, suggestion |-> suggestion, status_code |-> status_code]

\* int(text): None stands for the ValueError a text that is no integer raises.
int(text) ==
    IF \E n \in RetryAfterSeconds : ToString(n) = text
    THEN Some(CHOOSE n \in RetryAfterSeconds : ToString(n) = text)
    ELSE None

\* int(response.headers.get('Retry-After', 2 ** attempt)).
retry_after_of(header, attempt) ==
    IF header.t = "absent" THEN Some(2 ^ attempt) ELSE int(header.v)

\* The body of `async with self.session.request(...) as response` for a
\* response that is neither 200 nor 429: the exception it raises.
\* response.json() raises aiohttp.ContentTypeError, a ClientError, when the
\* Content-Type is not application/json.
error_of(s) ==
    LET a == s.answer
    IN  IF a.status = 400
        THEN IF ~s.json_type
             THEN Error("ClientError", <<"Attempt to decode JSON with unexpected mimetype">>,
                        None, None)
             ELSE IF a.json.shape \in {"invalid", "none"}
             THEN Error("JSONDecodeError", <<"Expecting value">>, None, None)
             ELSE IF a.json.shape = "error_not_object"
             THEN Error("AttributeError", <<"object has no attribute 'get'">>, None, None)
             ELSE IF Get(a.json.type, None) = Some("bad_prompt")
             THEN Error("CopyrightError",
                        <<Str(Get(a.json.message, Some("Copyrighted content detected")))>>,
                        Get(a.json.suggested_prompt, Some("")), None)
             ELSE Error("APIError", <<Str(Get(a.json.message, Some("Bad request")))>>,
                        None, Some(400))
        ELSE IF a.status = 401
        THEN Error("APIError", <<"Invalid API key">>, None, Some(401))
        ELSE Error("APIError", <<"API error: ", a.text>>, None, Some(a.status))

\* await asyncio.sleep(2 ** attempt): the seconds slept after a transport
\* failure.
backoff_constant(attempt) == 1

backoff(attempt) == 2 ^ attempt

\* The attempts of the helper from `attempt` on, on a session that is open:
\* the attempts made, the sleeps between them and what the call ends with.
\* last_exception is the text of the transport error caught last.
RECURSIVE attempts_from(_, _, _, _)
attempts_from(answers, payload, attempt, last_exception) ==
    IF attempt >= max_retries
    THEN [sent |-> <<>>, slept |-> <<>>,
          reply |-> Raise(Error("APIError",
                                <<"Request failed after ", ToString(max_retries),
                                  " attempts: ">> \o last_exception,
                                None, None))]
    ELSE LET s == answers[attempt + 1]
             a == s.answer
             ends(reply) == [sent |-> <<payload>>, slept |-> <<>>, reply |-> reply]
             goes_on(seconds, e) ==
                 LET r == attempts_from(answers, payload, attempt + 1, e)
                 IN  [sent |-> <<payload>> \o r.sent, slept |-> seconds \o r.slept,
                      reply |-> r.reply]
             caught(e) ==
                 IF attempt < max_retries - 1 THEN goes_on(<<backoff(attempt)>>, e)
                 ELSE goes_on(<<>>, e)
         IN  IF a.kind # "response" THEN caught(TransportMessage(a.kind))
             ELSE IF a.status = 200 THEN ends(Return(a))
             ELSE IF a.status = 429
             THEN LET retry_after == retry_after_of(s.retry_after, attempt)
                  IN  IF retry_after = None
                      THEN ends(Raise(Error("ValueError",
                                            <<"invalid literal for int() with base 10">>,
                                            None, None)))
                      ELSE IF attempt < max_retries - 1
                      THEN goes_on(retry_after, last_exception)
                      ELSE ends(Raise(Error("RateLimitError",
                                            <<"API rate limit exceeded. Please try again later.">>,
                                            None, None)))
             ELSE IF error_of(s).cls = "ClientError" THEN caught(error_of(s).msg)
             ELSE ends(Raise(error_of(s)))

\* _make_request_with_retry(method, url, **kwargs) on a generator whose
\* session is sess: a generator without a session gets one; a closed session
\* refuses the request with a RuntimeError, which no handler catches.
make_request_with_retry(sess, answers, payload) ==
    IF sess = "closed"
    THEN [sent |-> <<>>, slept |-> <<>>,
          reply |-> Raise(Error("RuntimeError", <<"Session is closed">>, None, None))]
    ELSE attempts_from(answers, payload, 0, <<"None">>)

request_with_retry ==
    LET r == make_request_with_retry(session, script, Payload(NoArgs))
    IN  /\ op' = "_make_request_with_retry"
        /\ session_at_call' = session
        /\ session' = IF session = "None" THEN "open" ELSE session
        /\ args' = NoArgs
        /\ sent' = r.sent
        /\ slept' = r.slept
        /\ returned' = r.reply.val
        /\ raised' = r.reply.exc
        /\ ret' = None
        /\ UNCHANGED <<max_retries, server, script, leaked, store_vars, other_vars>>

----------------------------------------------------------------------------
(***************************************************************************)
(* PreferenceLearner.                                                      *)
(***************************************************************************)
\* The days datetime.now() falls on: the first one, and one more than 90
\* days later.
Days == {0, 100}

\* datetime.isoformat() of midnight of a day, and datetime.fromisoformat():
\* None stands for the ValueError a text that is no ISO date raises.
isoformat(day) ==
    IF day = 0 THEN "2026-01-01T00:00:00" ELSE "2026-04-11T00:00:00"
fromisoformat(text) ==
    IF \E day \in Days : isoformat(day) = text
    THEN Some(CHOOSE day \in Days : isoformat(day) = text)
    ELSE None

\* `if x:` / `if not x:` on an Optional[str].
Truthy(x) == x # None /\ x # Some("")

\* MusicPreference(...): __post_init__ stamps a record that is given no
\* timestamp.
MusicPreference(prompt, liked, context, activity, mood, timestamp, duration_ms) ==
    [prompt |-> prompt, liked |-> liked, context |-> context,
     activity |-> activity, mood |-> mood,
     timestamp |-> IF Truthy(timestamp) THEN timestamp ELSE Some(isoformat(clock)),
     duration_ms |-> duration_ms]

\* json.dump of the values asdict(p) holds.
JBool(b) == [t |-> "bool", v |-> IF b THEN "true" ELSE "false"]
JNum(n) == [t |-> "num", v |-> ToString(n)]
dump_str(x) == IF x = None THEN Null ELSE JStr(x[1])
dump_int(x) == IF x = None THEN Null ELSE JNum(x[1])

\* The encoding that writes every record as liked.
dump_liked(p) ==
    [prompt |-> JStr(p.prompt), liked |-> JBool(TRUE),
     context |-> dump_str(p.context), activity |-> dump_str(p.activity),
     mood |-> dump_str(p.mood), timestamp |-> dump_str(p.timestamp),
     duration_ms |-> dump_int(p.duration_ms)]

\* json.dump(asdict(p)): one JSON object with the seven fields.
dump(p) ==
    [prompt |-> JStr(p.prompt), liked |-> JBool(p.liked),
     context |-> dump_str(p.context), activity |-> dump_str(p.activity),
     mood |-> dump_str(p.mood), timestamp |-> dump_str(p.timestamp),
     duration_ms |-> dump_int(p.duration_ms)]

dumps(prefs) == [i \in 1..Len(prefs) |-> dump(prefs[i])]

\* The durations a file may hold.
StoredDurations == {45000, 60000}
load_int(member) ==
    IF member.t = "num"
    THEN Some(CHOOSE n \in StoredDurations : ToString(n) = member.v)
    ELSE None

\* A dict member that holds an int, and dict.get(key) on a member that holds
\* an int or is absent.
PyInt(n) == [t |-> "int", v |-> ToString(n)]
GetInt(member) ==
    IF member.t = "int"
    THEN Some(CHOOSE n \in StoredDurations : ToString(n) = member.v)
    ELSE None

\* MusicPreference(**p) for p a JSON object read from a file: prompt and
\* liked are required, the other fields default to None.
required(p) == p.prompt.t # "absent" /\ p.liked.t # "absent"

\* The decoding that loses the mood tag.
from_json_without_mood(p) ==
    MusicPreference(p.prompt.v, p.liked.v = "true", Get(p.context, None),
                    Get(p.activity, None), None,
                    Get(p.timestamp, None), load_int(p.duration_ms))

from_json(p) ==
    MusicPreference(p.prompt.v, p.liked.v = "true", Get(p.context, None),
                    Get(p.activity, None), Get(p.mood, None),
                    Get(p.timestamp, None), load_int(p.duration_ms))

NoFile == [state |-> "missing", data |-> <<>>]
Malformed == [state |-> "malformed", data |-> <<>>]
JsonFile(data) == [state |-> "ok", data |-> data]

\* `with open(file) as f: data = json.load(f); [MusicPreference(**p) for p
\* in data]`: the records, or the exception raised.
read(file) ==
    IF file.state = "missing" THEN Raise("FileNotFoundError")
    ELSE IF file.state = "malformed" THEN Raise("JSONDecodeError")
    ELSE IF \E i \in 1..Len(file.data) : ~required(file.data[i])
         THEN Raise("TypeError")
    ELSE Return([i \in 1..Len(file.data) |-> from_json(file.data[i])])

\* The load() that leaves the list of the learner before as it was when the
\* read fails.
load_or_keep(file) ==
    IF file.state = "missing" THEN <<>>
    ELSE IF read(file).tag = "raise" THEN preferences
    ELSE read(file).val[1]

\* load(): what self.preferences is after __init__ set it to [] and load()
\* ran. Any exception of the read is caught and leaves [].
load(file) ==
    IF file.state = "missing" THEN <<>>
    ELSE IF read(file).tag = "raise" THEN <<>>
    ELSE read(file).val[1]

\* `with open(path, 'w') as f: json.dump(...)` on the file `file`: the file
\* afterwards. On a read-only disk open() raises and the file is as it was;
\* on a full disk open() has truncated the file when the write raises.
written(file, prefs) ==
    IF disk = "ok" THEN JsonFile(dumps(prefs))
    ELSE IF disk = "full" THEN Malformed
    ELSE file

\* What the store is fed with: each prompt is recorded under its own
\* activity, liked or not, with or without a mood.
PrefPrompts == {"coding music 1", "coding music 2", "workout music"}
ActivityOf(prompt) ==
    IF prompt = "workout music" THEN Some("exercising") ELSE Some("coding")
PrefTags ==
    { [liked |-> TRUE, mood |-> Some("calm")],
      [liked |-> TRUE, mood |-> None],
      [liked |-> FALSE, mood |-> Some("calm")] }
QueryActivities == {None, Some("coding")}
QueryMoods == {None, Some("calm")}
QueryLimits == {0, 2, 5}

\* What the store is fed with where its files are followed: one prompt,
\* recorded directly, as a generation or as feedback.
StoredPrompts == {"coding music 1"}
Metadatas ==
    { [context |-> Absent, activity |-> JStr("coding"), mood |-> Absent,
       duration_ms |-> Absent] }
Feedbacks ==
    { [feedback_type |-> "replay",
       context |-> Some([context |-> Absent, activity |-> JStr("coding"),
                         mood |-> Absent])],
      [feedback_type |-> "dislike", context |-> None] }
ClearDays == {90}
DiskStates == {"ok", "readonly", "full"}
StoragePaths == {"storage", "tmp"}
\* The files another program leaves at import_path: one that is not JSON,
\* and one JSON array of a single record without a timestamp.
ImportFiles ==
    { Malformed,
      JsonFile(<< [prompt |-> JStr("coding music 1"), liked |-> JBool(TRUE),
                   context |-> Absent, activity |-> JStr("coding"),
                   mood |-> Absent, timestamp |-> Absent,
                   duration_ms |-> Absent] >>) }
FavoriteLimits == {1, 5}

\* What record_generation is given: an empty dict, one with every key, and
\* one whose activity is None.
GenerationMetadatas ==
    { [context |-> Absent, activity |-> Absent, mood |-> Absent,
       duration_ms |-> Absent],
      [context |-> JStr("evening"), activity |-> JStr("coding"),
       mood |-> JStr("calm"), duration_ms |-> PyInt(45000)],
      [context |-> Absent, activity |-> Null, mood |-> JStr("calm"),
       duration_ms |-> Absent] }

\* What the store is fed with where exports are followed.
ExchangePrompts == {"coding music 1", "workout music"}

NoQuery == [activity |-> None, mood |-> None, limit |-> 0]

Elems(seq) == { seq[i] : i \in 1..Len(seq) }

\* The fallback test with the threshold off by one.
too_few_le(filtered) == Len(filtered) <= 3

\* get_recommendations: `if len(filtered) < 3`.
too_few(filtered) == Len(filtered) < 3

\* The membership test that never finds the prompt.
seen_never(prompt, seen_prompts) == FALSE

\* get_recommendations: `pref.prompt not in seen_prompts`, negated.
seen(prompt, seen_prompts) == prompt \in seen_prompts

\* The loop walking filtered from its oldest record to its newest: i records
\* are left to visit.
RECURSIVE oldest_first(_, _, _, _)
oldest_first(filtered, i, recs, limit) ==
    IF i = 0 THEN recs
    ELSE LET prompt == filtered[Len(filtered) - i + 1].prompt
             recs2 == IF seen(prompt, Elems(recs)) THEN recs ELSE Append(recs, prompt)
         IN  IF Len(recs2) >= limit THEN recs2
             ELSE oldest_first(filtered, i - 1, recs2, limit)

\* get_recommendations: the loop over reversed(filtered), from index i down.
\* seen_prompts always holds exactly the prompts of recommendations.
RECURSIVE unique_prompts(_, _, _, _)
unique_prompts(filtered, i, recs, limit) ==
    IF i = 0 THEN recs
    ELSE LET prompt == filtered[i].prompt
             recs2 == IF seen(prompt, Elems(recs)) THEN recs ELSE Append(recs, prompt)
         IN  IF Len(recs2) >= limit THEN recs2
             ELSE unique_prompts(filtered, i - 1, recs2, limit)

\* The liked filter that keeps every record.
liked_or_not(prefs) == prefs

\* get_recommendations: `[p for p in self.preferences if p.liked]`.
liked_only(prefs) == SelectSeq(prefs, LAMBDA p : p.liked)

\* get_recommendations on the record list prefs.
recommendations_of(prefs, activity, mood, limit) ==
    LET liked_prefs == liked_only(prefs)
        by_activity == IF Truthy(activity)
                       THEN SelectSeq(liked_prefs, LAMBDA p : p.activity = activity)
                       ELSE liked_prefs
        by_mood == IF Truthy(mood)
                   THEN SelectSeq(by_activity, LAMBDA p : p.mood = mood)
                   ELSE by_activity
        filtered == IF too_few(by_mood) THEN liked_prefs ELSE by_mood
    IN  IF liked_prefs = <<>> THEN <<>>
        ELSE unique_prompts(filtered, Len(filtered), <<>>, limit)

\* The save() that adds the newest record to what the file holds.
save_merging(prefs) ==
    written(preferences_file,
            IF prefs = <<>> THEN <<>>
            ELSE Append(load(preferences_file), prefs[Len(prefs)]))

\* save(): the whole list is written to preferences.json; an exception is
\* logged, not raised.
save(prefs) == written(preferences_file, prefs)

\* get_favorite_moods / get_favorite_activities on the tags of the liked
\* records that carry one, in record order: the distinct tags in the order
\* of their first record (the keys of the counting dict) ...
RECURSIVE keys(_, _)
keys(tags, found) ==
    IF tags = <<>> THEN found
    ELSE keys(Tail(tags),
              IF Head(tags) \in Elems(found) THEN found ELSE Append(found, Head(tags)))

count(tags, tag) == Cardinality({ i \in 1..Len(tags) : tags[i] = tag })

\* ... sorted(..., key=count, reverse=True): a stable sort, so tags of equal
\* count stay in the order of keys ...
RECURSIVE by_count(_, _)
by_count(ks, tags) ==
    IF ks = <<>> THEN <<>>
    ELSE LET top == CHOOSE i \in 1..Len(ks) :
                        /\ \A j \in 1..Len(ks) : count(tags, ks[j]) <= count(tags, ks[i])
                        /\ \A j \in 1..(i - 1) : count(tags, ks[j]) < count(tags, ks[i])
         IN  <<ks[top]>> \o by_count(SubSeq(ks, 1, top - 1) \o SubSeq(ks, top + 1, Len(ks)), tags)

\* ... cut by [:limit].
favorites_of(tags, limit) ==
    LET sorted == by_count(keys(tags, <<>>), tags)
    IN  SubSeq(sorted, 1, IF limit < Len(sorted) THEN limit ELSE Len(sorted))

mood_tags(prefs) ==
    LET liked_prefs == SelectSeq(prefs, LAMBDA p : p.liked /\ Truthy(p.mood))
    IN  [i \in 1..Len(liked_prefs) |-> liked_prefs[i].mood[1]]

activity_tags(prefs) ==
    LET liked_prefs == SelectSeq(prefs, LAMBDA p : p.liked /\ Truthy(p.activity))
    IN  [i \in 1..Len(liked_prefs) |-> liked_prefs[i].activity[1]]

\* The statistics that count every record as liked.
statistics_all_liked(prefs) ==
    LET total == Len(prefs)
    IN  [total_generations |-> total,
         liked_count |-> total,
         disliked_count |-> 0,
         like_rate |-> IF total > 0 THEN <<total, total>> ELSE <<0, 1>>,
         favorite_moods |-> favorites_of(mood_tags(prefs), 3),
         favorite_activities |-> favorites_of(activity_tags(prefs), 3),
         most_recent |-> SubSeq(prefs, IF total > 5 THEN total - 4 ELSE 1, total)]

\* get_statistics: like_rate is the quotient liked / total, kept as a
\* fraction, and 0 for an empty store; most_recent is self.preferences[-5:].
statistics_of(prefs) ==
    LET total == Len(prefs)
        liked == Len(SelectSeq(prefs, LAMBDA p : p.liked))
    IN  [total_generations |-> total,
         liked_count |-> liked,
         disliked_count |-> total - liked,
         like_rate |-> IF total > 0 THEN <<liked, total>> ELSE <<0, 1>>,
         favorite_moods |-> favorites_of(mood_tags(prefs), 3),
         favorite_activities |-> favorites_of(activity_tags(prefs), 3),
         most_recent |-> SubSeq(prefs, IF total > 5 THEN total - 4 ELSE 1, total)]

\* What every call that is not a query leaves behind in the variables
\* holding the answers of the queries.
NoAnswers ==
    /\ query' = NoQuery
    /\ recommendations' = None
    /\ favorites' = None
    /\ statistics' = None

\* The body of record_preference with the new record put first.
insert_and_save(prompt, liked, context, activity, mood, duration_ms) ==
    /\ Len(preferences) < MaxPrefs
    /\ preferences' = <<MusicPreference(prompt, liked, context, activity, mood, None, duration_ms)>>
                        \o preferences
    /\ preferences_file' = save(preferences')
    /\ escaped' = None
    /\ NoAnswers
    /\ UNCHANGED <<disk, clock, export_file, exported, gen_vars, other_vars>>

\* The body of record_preference: the record is built, appended and the list
\* saved.
append_and_save(prompt, liked, context, activity, mood, duration_ms) ==
    /\ Len(preferences) < MaxPrefs
    /\ preferences' = Append(preferences,
            MusicPreference(prompt, liked, context, activity, mood, None, duration_ms))
    /\ preferences_file' = save(preferences')
    /\ escaped' = None
    /\ NoAnswers
    /\ UNCHANGED <<disk, clock, export_file, exported, gen_vars, other_vars>>

\* record_generation as the server's tool calls it: on the store it does what
\* record_generation does.
recorded_generation(prompt, metadata) ==
    /\ Len(preferences) < MaxPrefs
    /\ preferences' = Append(preferences,
            MusicPreference(prompt, TRUE, Get(metadata.context, None),
                            Get(metadata.activity, None), Get(metadata.mood, None),
                            None, GetInt(metadata.duration_ms)))
    /\ preferences_file' = save(preferences')
    /\ escaped' = None
    /\ NoAnswers
    /\ store_op' = "record_generation"
    /\ generated' = Some([prompt |-> prompt, metadata |-> metadata])
    /\ UNCHANGED <<disk, clock, export_file, exported>>

record_preference(prompt, liked, context, activity, mood, duration_ms) ==
    /\ append_and_save(prompt, liked, context, activity, mood, duration_ms)
    /\ store_op' = "record_preference"
    /\ generated' = None

\* The record_generation that records the generation as not liked.
record_generation_not_liked(prompt, metadata, result_path) ==
    /\ append_and_save(prompt, FALSE, Get(metadata.context, None),
                       Get(metadata.activity, None), Get(metadata.mood, None),
                       GetInt(metadata.duration_ms))
    /\ store_op' = "record_generation"
    /\ generated' = Some([prompt |-> prompt, metadata |-> metadata])

\* metadata is a dict of str members and an int duration_ms; result_path is
\* not used.
record_generation(prompt, metadata, result_path) ==
    /\ append_and_save(prompt, TRUE, Get(metadata.context, None),
                       Get(metadata.activity, None), Get(metadata.mood, None),
                       GetInt(metadata.duration_ms))
    /\ store_op' = "record_generation"
    /\ generated' = Some([prompt |-> prompt, metadata |-> metadata])

\* context is None or a dict of str members.
record_feedback(prompt, feedback_type, context) ==
    /\ append_and_save(prompt, feedback_type \in {"like", "replay"},
                       IF context # None THEN Get(context[1].context, None) ELSE None,
                       IF context # None THEN Get(context[1].activity, None) ELSE None,
                       IF context # None THEN Get(context[1].mood, None) ELSE None,
                       None)
    /\ store_op' = "record_feedback"
    /\ generated' = None

\* clear_old_preferences: a record whose timestamp is no ISO date makes
\* fromisoformat raise ValueError out of the list comprehension, before
\* self.preferences is assigned.
clear_old_preferences(days) ==
    LET cutoff == clock - days
        kept == SelectSeq(preferences,
                          LAMBDA p : fromisoformat(p.timestamp[1])[1] > cutoff)
    IN  /\ store_op' = "clear_old_preferences"
        /\ IF \E i \in 1..Len(preferences) :
                  fromisoformat(preferences[i].timestamp[1]) = None
           THEN /\ escaped' = Some("ValueError")
                /\ UNCHANGED <<preferences, preferences_file>>
           ELSE /\ escaped' = None
                /\ preferences' = kept
                /\ preferences_file' =
                      IF Len(preferences) - Len(kept) > 0 THEN save(kept)
                      ELSE preferences_file
        /\ NoAnswers
        /\ generated' = None
        /\ UNCHANGED <<disk, clock, export_file, exported, gen_vars, other_vars>>

\* export_preferences has no handler: an exception of open() or of the
\* write escapes.
export_preferences(export_path) ==
    /\ store_op' = "export_preferences"
    /\ export_file' = written(export_file, preferences)
    /\ escaped' = IF disk = "ok" THEN None
                  ELSE IF disk = "full" THEN Some("OSError")
                  ELSE Some("PermissionError")
    /\ exported' = IF disk = "ok" THEN Some(preferences) ELSE exported
    /\ NoAnswers
    /\ generated' = None
    /\ UNCHANGED <<preferences, preferences_file, disk, clock, gen_vars, other_vars>>

\* import_preferences has no handler around the read either; save() follows
\* a read that succeeded.
import_preferences(import_path, merge) ==
    LET imported_prefs == read(export_file)
    IN  /\ store_op' = IF merge THEN "import_preferences(merge=True)"
                       ELSE "import_preferences(merge=False)"
        /\ IF imported_prefs.tag = "raise"
           THEN /\ escaped' = imported_prefs.exc
                /\ UNCHANGED <<preferences, preferences_file>>
           ELSE /\ Len(imported_prefs.val[1]) + (IF merge THEN Len(preferences) ELSE 0)
                      <= MaxPrefs
                /\ escaped' = None
                /\ preferences' = IF merge THEN preferences \o imported_prefs.val[1]
                                  ELSE imported_prefs.val[1]
                /\ preferences_file' = save(preferences')
        /\ NoAnswers
        /\ generated' = None
        /\ UNCHANGED <<disk, clock, export_file, exported, gen_vars, other_vars>>

\* PreferenceLearner(storage_path): a learner is constructed on the
\* directory used so far ("storage") or on a new, empty one ("tmp").
PreferenceLearner(storage_path) ==
    /\ store_op' = IF storage_path = "tmp" THEN "PreferenceLearner(tmp)"
                   ELSE "PreferenceLearner(storage)"
    /\ preferences_file' = IF storage_path = "tmp" THEN NoFile ELSE preferences_file
    /\ preferences' = load(preferences_file')
    /\ escaped' = None
    /\ NoAnswers
    /\ generated' = None
    /\ UNCHANGED <<disk, clock, export_file, exported, gen_vars, other_vars>>

get_recommendations(activity, mood, limit) ==
    /\ store_op' = "get_recommendations"
    /\ query' = [activity |-> activity, mood |-> mood, limit |-> limit]
    /\ recommendations' = Some(recommendations_of(preferences, activity, mood, limit))
    /\ escaped' = None
    /\ favorites' = None
    /\ statistics' = None
    /\ generated' = None
    /\ UNCHANGED <<preferences, preferences_file, disk, clock, export_file, exported,
                   gen_vars, other_vars>>

get_favorite_moods(limit) ==
    /\ store_op' = "get_favorite_moods"
    /\ favorites' = Some(favorites_of(mood_tags(preferences), limit))
    /\ escaped' = None
    /\ query' = NoQuery
    /\ recommendations' = None
    /\ statistics' = None
    /\ generated' = None
    /\ UNCHANGED <<preferences, preferences_file, disk, clock, export_file, exported,
                   gen_vars, other_vars>>

get_favorite_activities(limit) ==
    /\ store_op' = "get_favorite_activities"
    /\ favorites' = Some(favorites_of(activity_tags(preferences), limit))
    /\ escaped' = None
    /\ query' = NoQuery
    /\ recommendations' = None
    /\ statistics' = None
    /\ generated' = None
    /\ UNCHANGED <<preferences, preferences_file, disk, clock, export_file, exported,
                   gen_vars, other_vars>>

\* The get_statistics that keeps only the records it reports as most recent,
\* and saves.
get_statistics_pruning ==
    /\ store_op' = "get_statistics"
    /\ statistics' = Some(statistics_of(preferences))
    /\ preferences' = SubSeq(preferences, 2, Len(preferences))
    /\ preferences_file' = save(preferences')
    /\ escaped' = None
    /\ query' = NoQuery
    /\ recommendations' = None
    /\ favorites' = None
    /\ generated' = None
    /\ UNCHANGED <<disk, clock, export_file, exported, gen_vars, other_vars>>

get_statistics ==
    /\ store_op' = "get_statistics"
    /\ statistics' = Some(statistics_of(preferences))
    /\ escaped' = None
    /\ query' = NoQuery
    /\ recommendations' = None
    /\ favorites' = None
    /\ generated' = None
    /\ UNCHANGED <<preferences, preferences_file, disk, clock, export_file, exported,
                   gen_vars, other_vars>>

\* The environment: the disk the files are on becomes writable, read-only or
\* full; time passes; another program leaves a file at import_path.
\* No call is in store_op, escaped and the answers after such a step.
Elsewhere ==
    /\ store_op' = "none"
    /\ escaped' = None
    /\ NoAnswers

disk_becomes(state) ==
    /\ disk # state
    /\ disk' = state
    /\ Elsewhere
    /\ generated' = None
    /\ UNCHANGED <<preferences, preferences_file, clock, export_file, exported, gen_vars, other_vars>>

days_pass(day) ==
    /\ day > clock
    /\ clock' = day
    /\ Elsewhere
    /\ generated' = None
    /\ UNCHANGED <<preferences, preferences_file, disk, export_file, exported, gen_vars, other_vars>>

file_appears(file) ==
    /\ export_file # file
    /\ export_file' = file
    /\ exported' = None
    /\ Elsewhere
    /\ generated' = None
    /\ UNCHANGED <<preferences, preferences_file, disk, clock, gen_vars, other_vars>>

----------------------------------------------------------------------------
(***************************************************************************)
(* A second PreferenceLearner on the storage path of the first.            *)
(***************************************************************************)
\* PreferenceLearner(storage_path) for the second learner: it loads what the
\* file holds at that moment.
second_PreferenceLearner ==
    /\ second' = load(preferences_file)
    /\ store_op' = "second.PreferenceLearner(storage)"
    /\ escaped' = None
    /\ NoAnswers
    /\ generated' = None
    /\ UNCHANGED <<preferences, preferences_file, disk, clock, export_file, exported,
                   gen_vars, tool, steps, tool_result>>

\* record_preference on the second learner: its own list grows and is what
\* the file is rewritten from.
second_record_preference(prompt, liked, context, activity, mood, duration_ms) ==
    /\ Len(second) < MaxPrefs
    /\ second' = Append(second,
            MusicPreference(prompt, liked, context, activity, mood, None, duration_ms))
    /\ preferences_file' = save(second')
    /\ store_op' = "second.record_preference"
    /\ escaped' = None
    /\ NoAnswers
    /\ generated' = None
    /\ UNCHANGED <<preferences, disk, clock, export_file, exported,
                   gen_vars, tool, steps, tool_result>>

----------------------------------------------------------------------------
(***************************************************************************)
(* MusicMCPServer: the generate_music_simple tool.                         *)
(***************************************************************************)
min_duration_ms == 3000
max_duration_ms == 300000
default_duration_ms == 60000

\* The durations a tool call asks for: none, too short, in range, too long.
ToolDurations == {None, Some(1000), Some(45000), Some(400000)}

\* The metadata a tool call passes: none, or tags of the listener.
ToolMetadatas ==
    { None,
      Some([context |-> Absent, activity |-> JStr("coding"), mood |-> JStr("calm"),
            duration_ms |-> Absent]) }

\* FileManager.save_music: it writes both files, or the write of the audio
\* file raises, or the write of the metadata file raises.
SaveOutcomes == {"saved", "audio write fails", "metadata write fails"}

\* One answer to the one request generate_simple makes: audio, audio under a
\* header that is no JSON, a rejected prompt, a rate limit, a refused key, a
\* server error or no connection.
ToolAnswers ==
    { Response(200, "audio", h, NoJson, "") : h \in {"absent", "malformed"} }
    \cup { Response(400, "", "absent", BadPrompt, "") }
    \cup Responses429 \cup Responses401
    \cup { Response(500, "", "absent", NoJson, "Internal error"),
           TransportFailure("ClientError") }
ToolServers == { [first |-> a, rest |-> a] : a \in ToolAnswers }

NoTool == [prompt |-> "", duration_ms |-> None, save |-> "saved", enabled |-> TRUE]

\* `duration_ms or self.config.default_duration_ms`
duration_or_default(duration_ms) ==
    IF duration_ms # None /\ duration_ms[1] # 0 THEN duration_ms
    ELSE Some(default_duration_ms)

\* file_metadata: the caller's metadata, or {}, updated with the facts of the
\* generation; of its members the keys record_generation reads.
file_metadata(metadata, duration_ms) ==
    [context |-> IF metadata = None THEN Absent ELSE metadata[1].context,
     activity |-> IF metadata = None THEN Absent ELSE metadata[1].activity,
     mood |-> IF metadata = None THEN Absent ELSE metadata[1].mood,
     duration_ms |-> PyInt(duration_or_default(duration_ms)[1])]

\* The steps of a tool call that records the generation before the file
\* manager is asked to save it.
tool_steps_recording_first(requests, succeeded, saving, enabled) ==
    [i \in 1..requests |-> "request"]
    \o (IF succeeded /\ enabled THEN <<"record_generation">> ELSE <<>>)
    \o (IF succeeded
        THEN <<IF saving = "saved" THEN "save_music" ELSE "save_music raises">>
        ELSE <<>>)

\* The steps of a tool call whose duration was accepted: the requests of
\* generate_simple; if the result is a success, save_music; and if that
\* returned and learning is enabled, record_generation.
tool_steps(requests, succeeded, saving, enabled) ==
    [i \in 1..requests |-> "request"]
    \o (IF succeeded
        THEN <<IF saving = "saved" THEN "save_music" ELSE "save_music raises">>
        ELSE <<>>)
    \o (IF succeeded /\ saving = "saved" /\ enabled THEN <<"record_generation">> ELSE <<>>)

\* The dict the tool returns.
ToolResult(success, error, audio_path) ==
    [success |-> success, error |-> error, audio_path |-> audio_path]

\* generate_music_simple(prompt, duration_ms, metadata=metadata) on a server
\* whose configuration has enable_preference_learning = enabled.
generate_music_simple(prompt, duration_ms, metadata, srv, saving, enabled) ==
    LET too_short == duration_ms # None /\ duration_ms[1] < min_duration_ms
        too_long == duration_ms # None /\ duration_ms[1] > max_duration_ms
        sess == IF session = "None" THEN "open" ELSE session
        r == simple_run(sess, prompt, duration_or_default(duration_ms), srv)
        succeeded == r.out.val # None /\ r.out.val[1].success
        did == tool_steps(Len(r.sent), succeeded, saving, enabled)
    IN  /\ tool' = [prompt |-> prompt, duration_ms |-> duration_ms, save |-> saving,
                    enabled |-> enabled]
        /\ UNCHANGED second
        /\ IF too_short \/ too_long
           THEN /\ steps' = <<>>
                /\ tool_result' =
                      Some(ToolResult(FALSE,
                                      Some(IF too_short THEN <<"Duration must be at least ",
                                                               ToString(min_duration_ms),
                                                               "ms (3 seconds)">>
                                           ELSE <<"Duration cannot exceed ",
                                                  ToString(max_duration_ms),
                                                  "ms (5 minutes)">>),
                                      None))
                /\ UNCHANGED <<gen_vars, store_vars>>
           ELSE /\ session' = sess
                /\ op' = "generate_simple"
                /\ session_at_call' = sess
                /\ args' = SimpleArgs(prompt, duration_or_default(duration_ms))
                /\ server' = srv
                /\ sent' = r.sent
                /\ slept' = r.slept
                /\ ret' = r.out.val
                /\ raised' = r.out.exc
                /\ UNCHANGED <<max_retries, script, returned, leaked>>
                /\ steps' = did
                /\ tool_result' =
                      Some(IF ~succeeded
                           THEN ToolResult(FALSE,
                                           IF r.out.val # None THEN r.out.val[1].error
                                           ELSE Some(r.out.exc[1].msg),
                                           None)
                           ELSE IF saving # "saved"
                           THEN ToolResult(FALSE, Some(<<"[Errno 28] No space left on device">>),
                                           None)
                           ELSE ToolResult(TRUE, None, Some("music.mp3")))
                /\ IF "record_generation" \in Elems(did)
                   THEN recorded_generation(prompt, file_metadata(metadata, duration_ms))
                   ELSE UNCHANGED store_vars

----------------------------------------------------------------------------
(***************************************************************************)
(* Specifications.                                                         *)
(***************************************************************************)
\* MusicGenerator(api_key, max_retries=n): no session yet.
Constructed(n) ==
    /\ max_retries = n
    /\ session = "None"
    /\ op = "none"
    /\ session_at_call = "None"
    /\ args = NoArgs
    /\ server = [first |-> TransportFailure("ClientError"),
                 rest |-> TransportFailure("ClientError")]
    /\ sent = <<>>
    /\ slept = <<>>
    /\ ret = None
    /\ raised = None
    /\ returned = None
    /\ leaked = FALSE

GeneratorInit(n) ==
    /\ Constructed(n)
    /\ script = NoScript

\* PreferenceLearner(storage_path) on an empty directory: load() finds no
\* preferences.json.
LearnerInit ==
    /\ preferences = load(NoFile)
    /\ preferences_file = NoFile
    /\ disk = "ok"
    /\ query = NoQuery
    /\ recommendations = None
    /\ clock = 0
    /\ export_file = NoFile
    /\ exported = None
    /\ store_op = "PreferenceLearner(tmp)"
    /\ escaped = None
    /\ favorites = None
    /\ statistics = None
    /\ generated = None
    /\ tool = NoTool
    /\ steps = <<>>
    /\ tool_result = None
    /\ second = <<>>

Init ==
    /\ \E n \in 1..MaxRetriesBound : GeneratorInit(n)
    /\ LearnerInit

\* The generator before a remote API whose answers to the attempts of the
\* retry helper are fixed beforehand, one per attempt the helper can make.
InitRetry ==
    /\ \E n \in 1..MaxRetriesBound :
          /\ Constructed(n)
          /\ script \in [1..n -> ScriptedAnswers]
    /\ LearnerInit

InitStore ==
    /\ GeneratorInit(DefaultMaxRetries)
    /\ LearnerInit

NextGen ==
    \/ \E prompt \in Prompts, duration_ms \in Durations, srv \in Servers :
          generate_simple(prompt, duration_ms, srv)
    \/ \E plan \in Plans, strict \in BOOLEAN, srv \in Servers :
          generate_structured(plan, strict, srv)
    \/ aenter
    \/ aexit

NextStore ==
    \/ \E prompt \in PrefPrompts, tags \in PrefTags :
          record_preference(prompt, tags.liked, None, ActivityOf(prompt), tags.mood, None)
    \/ \E activity \in QueryActivities, mood \in QueryMoods, limit \in QueryLimits :
          get_recommendations(activity, mood, limit)

\* The store with its preferences file, the disk and the clock.
NextPersist ==
    \/ \E prompt \in StoredPrompts, liked \in BOOLEAN :
          /\ Len(preferences) < MaxStored
          /\ record_preference(prompt, liked, None, ActivityOf(prompt), None, None)
    \/ \E prompt \in StoredPrompts, metadata \in Metadatas :
          /\ Len(preferences) < MaxStored
          /\ record_generation(prompt, metadata, "music.mp3")
    \/ \E prompt \in StoredPrompts, feedback \in Feedbacks :
          /\ Len(preferences) < MaxStored
          /\ record_feedback(prompt, feedback.feedback_type, feedback.context)
    \/ \E days \in ClearDays : clear_old_preferences(days)
    \/ \E merge \in BOOLEAN :
          /\ import_preferences("import.json", merge)
          /\ Len(preferences') <= MaxStored
    \/ \E storage_path \in StoragePaths : PreferenceLearner(storage_path)
    \/ \E activity \in QueryActivities : get_recommendations(activity, None, 5)
    \/ \E limit \in FavoriteLimits : get_favorite_moods(limit)
    \/ \E limit \in FavoriteLimits : get_favorite_activities(limit)
    \/ get_statistics
    \/ \E state \in DiskStates : disk_becomes(state)
    \/ \E day \in Days : days_pass(day)
    \/ \E file \in ImportFiles : file_appears(file)

\* The store with the file it exports to and imports from.
NextExchange ==
    \/ \E prompt \in ExchangePrompts, tags \in PrefTags :
          /\ Len(preferences) < MaxStored
          /\ record_preference(prompt, tags.liked, None, ActivityOf(prompt), tags.mood, None)
    \/ export_preferences("export.json")
    \/ \E merge \in BOOLEAN :
          /\ import_preferences("export.json", merge)
          /\ Len(preferences') <= MaxStored
    \/ \E storage_path \in StoragePaths : PreferenceLearner(storage_path)

\* The store with the queries that summarise it.
NextStats ==
    \/ \E prompt \in PrefPrompts, tags \in PrefTags :
          record_preference(prompt, tags.liked, None, ActivityOf(prompt), tags.mood, None)
    \/ \E limit \in FavoriteLimits : get_favorite_moods(limit)
    \/ \E limit \in FavoriteLimits : get_favorite_activities(limit)
    \/ get_statistics

\* The store fed by record_generation, and reloaded from its file.
NextGeneration ==
    \/ \E prompt \in PrefPrompts, metadata \in GenerationMetadatas :
          /\ Len(preferences) < MaxStored
          /\ record_generation(prompt, metadata, "music.mp3")
    \/ PreferenceLearner("storage")

\* Two learners on one storage path, each recording and reopening in any
\* order.
NextTwo ==
    \/ \E prompt \in PrefPrompts, liked \in BOOLEAN :
          /\ Len(preferences) < MaxStored
          /\ record_preference(prompt, liked, None, ActivityOf(prompt), None, None)
    \/ \E prompt \in PrefPrompts, liked \in BOOLEAN :
          /\ Len(second) < MaxStored
          /\ second_record_preference(prompt, liked, None, ActivityOf(prompt), None, None)
    \/ PreferenceLearner("storage")
    \/ second_PreferenceLearner

\* The server's tool, called again and again.
NextTool ==
    \E prompt \in StoredPrompts, duration_ms \in ToolDurations, metadata \in ToolMetadatas,
       srv \in ToolServers, saving \in SaveOutcomes, enabled \in BOOLEAN :
        /\ Len(preferences) < MaxStored
        /\ generate_music_simple(prompt, duration_ms, metadata, srv, saving, enabled)

\* The retry helper and the session it runs on.
NextRetry ==
    \/ request_with_retry
    \/ aenter
    \/ aexit

\* The generator alone, and the preference store alone: neither reads or
\* writes the other's state.
SpecGen == Init /\ [][NextGen]_vars
SpecStore == InitStore /\ [][NextStore]_vars
SpecPersist == InitStore /\ [][NextPersist]_vars
SpecExchange == InitStore /\ [][NextExchange]_vars
SpecStats == InitStore /\ [][NextStats]_vars
SpecGeneration == InitStore /\ [][NextGeneration]_vars
SpecRetry == InitRetry /\ [][NextRetry]_vars
SpecTool == InitStore /\ [][NextTool]_vars
SpecTwo == InitStore /\ [][NextTwo]_vars

----------------------------------------------------------------------------
(***************************************************************************)
(* Properties of MusicGenerator, checked under SpecGen.                    *)
(***************************************************************************)
RateLimitMessages ==
    { Some(<<"Rate limit exceeded. Please try again in a moment.">>),
      Some(<<"API rate limit exceeded. Please try again later.">>) }
AuthMessages ==
    { Some(<<"Invalid API key. Please check your ELEVENLABS_API_KEY.">>),
      Some(<<"Invalid API key">>) }
MentionsCopyright(error) ==
    /\ error # None
    /\ Len(error[1]) > 0
    /\ error[1][1] \in {"Copyright detected: ", "Copyrighted content detected"}

\* Message text ends with the pieces of tail.
EndsWith(text, tail) ==
    /\ Len(text) >= Len(tail)
    /\ SubSeq(text, Len(text) - Len(tail) + 1, Len(text)) = tail

\* The outcome category of a MusicResult.
Category(r) ==
    IF r.success THEN "Success"
    ELSE IF MentionsCopyright(r.error) THEN "CopyrightRejected"
    ELSE IF r.error \in RateLimitMessages THEN "RateLimited"
    ELSE IF r.error \in AuthMessages THEN "Unauthorized"
    ELSE "GenericError"

IsBadPrompt(a) ==
    /\ a.kind = "response"
    /\ a.status = 400
    /\ a.json.shape = "object"
    /\ a.json.type = JStr("bad_prompt")

\* The last call was generate_simple (generate_structured) on an open session.
SimpleCalled == op = "generate_simple" /\ session_at_call = "open"
StructuredCalled == op = "generate_structured" /\ session_at_call = "open"

\* C1: against a server that answers every request with 429, generate_simple
\* issues exactly max_retries requests and returns a non-success result whose
\* error names the rate limit.
C1_RateLimitAttempts ==
    (SimpleCalled /\ AnswersEvery(server, Responses429)) =>
        /\ Len(sent) = max_retries
        /\ ret # None
        /\ ~ret[1].success
        /\ ret[1].error \in RateLimitMessages

\* C2: when every request fails at the transport level, generate_simple makes
\* max_retries attempts and then returns a non-success generic error that
\* wraps the last transport exception.
C2_TransportRetries ==
    (SimpleCalled /\ AnswersEvery(server, TransportFailures)) =>
        /\ Len(sent) = max_retries
        /\ ret # None
        /\ ~ret[1].success
        /\ Category(ret[1]) = "GenericError"
        /\ EndsWith(ret[1].error[1],
                    TransportMessage(Answer(server, max_retries - 1).kind))

C4_StructuredAsSimple ==
    (StructuredCalled /\ server.first.kind = "response") =>
        LET simple == simple_run("open", "Beatles song", None, server).out
        IN  /\ ret # None
            /\ simple.tag = "return"
            /\ Category(ret[1]) = Category(simple.val[1])
            /\ (IsBadPrompt(server.first) /\ server.first.json.suggested_prompt.t = "str")
                  => /\ ~ret[1].success
                     /\ ret[1].suggested_prompt =
                          Some(server.first.json.suggested_prompt.v)
            /\ server.first.status = 401 => Category(ret[1]) = "Unauthorized"
            /\ server.first.status = 429 => Category(ret[1]) = "RateLimited"

\* C5: for a 400 response whose error.type is bad_prompt, generate_simple
\* returns a non-success result whose suggested_prompt is the response's
\* suggested_prompt and whose error mentions copyright.
C5_CopyrightSuggestion ==
    (SimpleCalled /\ IsBadPrompt(server.first)) =>
        /\ ret # None
        /\ ~ret[1].success
        /\ MentionsCopyright(ret[1].error)
        /\ server.first.json.suggested_prompt.t = "str"
              => ret[1].suggested_prompt = Some(server.first.json.suggested_prompt.v)

C5_Witness ==
    /\ SimpleCalled
    /\ IsBadPrompt(server.first)
    /\ server.first.json.suggested_prompt = JStr("gentle piano music")
    /\ ret # None
    /\ ret[1].suggested_prompt = Some("gentle piano music")

\* C6: for a 401 response generate_simple makes exactly one request, sleeps
\* never, and returns a non-success result signalling an invalid API key.
C6_UnauthorizedOnce ==
    (SimpleCalled /\ server.first \in Responses401) =>
        /\ Len(sent) = 1
        /\ slept = <<>>
        /\ ret # None
        /\ ~ret[1].success
        /\ Category(ret[1]) = "Unauthorized"

\* C6 witness: a 401 from a server that would go on answering 401, on a
\* generator that is configured with attempts to spare.
C6_Witness ==
    /\ SimpleCalled
    /\ AnswersEvery(server, Responses401)
    /\ max_retries > 1
    /\ Len(sent) = 1
    /\ ret # None
    /\ Category(ret[1]) = "Unauthorized"

\* C7: for every prompt, every duration and a 200 response, generate_simple
\* returns a success result whose audio_data is the response body and whose
\* duration_ms is the argument.
C7_SuccessCarriesBody ==
    (SimpleCalled /\ server.first \in Responses200) =>
        /\ ret # None
        /\ ret[1].success
        /\ ret[1].audio_data = Some(server.first.body)
        /\ ret[1].duration_ms = args.duration_ms

\* C8: every MusicResult returned populates exactly one outcome: success
\* comes with audio_data and without error and suggested_prompt; non-success
\* comes with error and without audio_data.
C8_OneOutcome ==
    (op \in {"generate_simple", "generate_structured"} /\ ret # None) =>
        /\ ret[1].success =>
              /\ ret[1].audio_data # None
              /\ ret[1].error = None
              /\ ret[1].suggested_prompt = None
        /\ ~ret[1].success =>
              /\ ret[1].error # None
              /\ ret[1].audio_data = None

----------------------------------------------------------------------------
(***************************************************************************)
(* Properties of PreferenceLearner, checked under SpecStore.               *)
(***************************************************************************)
\* Record p is liked and carries the tags query q filters on.
Matches(p, q) ==
    /\ p.liked
    /\ Truthy(q.activity) => p.activity = q.activity
    /\ Truthy(q.mood) => p.mood = q.mood

Matching(q) == SelectSeq(preferences, LAMBDA p : Matches(p, q))

Liked(prompt, activity) ==
    MusicPreference(prompt, TRUE, None, Some(activity), None, None, None)

\* C9: with an activity (mood) filter get_recommendations returns only
\* prompts of liked records whose activity (mood) is the filter; after two
\* liked 'coding' records and one liked 'exercising' record,
\* get_recommendations(activity='coding', limit=5) is the two coding prompts,
\* the later one first.
C9_FilteredOnly ==
    recommendations # None =>
        /\ \A prompt \in Elems(recommendations[1]) :
              \E i \in 1..Len(preferences) :
                  /\ preferences[i].prompt = prompt
                  /\ Matches(preferences[i], query)
        /\ ( /\ preferences = << Liked("coding music 1", "coding"),
                                 Liked("coding music 2", "coding"),
                                 Liked("workout music", "exercising") >>
             /\ query = [activity |-> Some("coding"), mood |-> None, limit |-> 5] )
              => recommendations[1] = <<"coding music 2", "coding music 1">>

Candidates(q) ==
    IF Len(Matching(q)) < 3
    THEN SelectSeq(preferences, LAMBDA p : p.liked)
    ELSE Matching(q)

PromptsOf(records) == { records[i].prompt : i \in 1..Len(records) }

Min(a, b) == IF a <= b THEN a ELSE b

\* The index of the last record of records that carries prompt.
Latest(records, prompt) ==
    CHOOSE i \in 1..Len(records) :
        /\ records[i].prompt = prompt
        /\ \A j \in (i + 1)..Len(records) : records[j].prompt # prompt

\* C11: for every store content and every limit >= 0, get_recommendations
\* returns at most limit prompts, and exactly min(limit, number of distinct
\* prompts among the candidate records).
C11_LimitBound ==
    recommendations # None =>
        /\ Len(recommendations[1]) <= query.limit
        /\ Len(recommendations[1]) =
              Min(query.limit, Cardinality(PromptsOf(Candidates(query))))

\* C12: the sequence get_recommendations returns never holds the same prompt
\* twice; a store made of one liked prompt recorded any number of times
\* yields exactly that one entry.
C12_NoDuplicates ==
    recommendations # None =>
        /\ \A i, j \in 1..Len(recommendations[1]) :
              i # j => recommendations[1][i] # recommendations[1][j]
        /\ \A prompt \in PrefPrompts :
              ( /\ preferences # <<>>
                /\ \A k \in 1..Len(preferences) :
                      preferences[k].liked /\ preferences[k].prompt = prompt
                /\ query.limit >= 1 )
              => recommendations[1] = <<prompt>>

\* C12 witness: the same liked prompt recorded three times, queried with
\* limit 5, gives one entry.
C12_Witness ==
    /\ recommendations # None
    /\ query.limit = 5
    /\ Len(preferences) = 3
    /\ \A k \in 1..3 : preferences[k] = Liked("coding music 1", "coding")
    /\ recommendations[1] = <<"coding music 1">>

\* C13: get_recommendations returns the prompts most recent first: of two
\* returned prompts, the one returned first has its latest candidate record
\* after the latest candidate record of the other.
C13_MostRecentFirst ==
    recommendations # None =>
        \A i, j \in 1..Len(recommendations[1]) :
            i < j =>
                /\ recommendations[1][i] \in PromptsOf(Candidates(query))
                /\ recommendations[1][j] \in PromptsOf(Candidates(query))
                /\ Latest(Candidates(query), recommendations[1][i])
                      > Latest(Candidates(query), recommendations[1][j])

\* C13 witness: a prompt recorded first and again last is returned before the
\* prompt recorded in between.
C13_Witness ==
    /\ recommendations # None
    /\ Len(preferences) = 3
    /\ preferences[1].prompt = "coding music 1"
    /\ preferences[2].prompt = "coding music 2"
    /\ preferences[3].prompt = "coding music 1"
    /\ \A k \in 1..3 : preferences[k].liked
    /\ recommendations[1] = <<"coding music 1", "coding music 2">>

\* C14: disliked items are not recommended: every returned prompt is the
\* prompt of at least one liked record, a prompt recorded only as not liked
\* is never returned, and the result is empty when no record is liked.
C14_LikedOnly ==
    recommendations # None =>
        /\ \A prompt \in Elems(recommendations[1]) :
              \E k \in 1..Len(preferences) :
                  preferences[k].prompt = prompt /\ preferences[k].liked
        /\ \A k \in 1..Len(preferences) :
              (\A m \in 1..Len(preferences) :
                  preferences[m].prompt = preferences[k].prompt
                      => ~preferences[m].liked)
              => preferences[k].prompt \notin Elems(recommendations[1])
        /\ (\A k \in 1..Len(preferences) : ~preferences[k].liked)
              => recommendations[1] = <<>>

\* C14 witness: one prompt liked, another recorded only as not liked, and the
\* answer is the liked prompt alone.
C14_Witness ==
    /\ recommendations # None
    /\ query.limit = 5
    /\ \E k \in 1..Len(preferences) :
          preferences[k].prompt = "coding music 2" /\ ~preferences[k].liked
    /\ \A k \in 1..Len(preferences) :
          preferences[k].prompt = "coding music 2" => ~preferences[k].liked
    /\ recommendations[1] = <<"coding music 1">>

----------------------------------------------------------------------------
(***************************************************************************)
(* Properties of PreferenceLearner and its files, checked under            *)
(* SpecPersist and SpecExchange.                                           *)
(***************************************************************************)
RecordingOps == {"record_preference", "record_generation", "record_feedback"}
MutatingOps ==
    RecordingOps \cup {"clear_old_preferences", "import_preferences(merge=True)",
                       "import_preferences(merge=False)"}
QueryOps ==
    {"get_recommendations", "get_favorite_moods", "get_favorite_activities",
     "get_statistics"}
Constructions == {"PreferenceLearner(storage)", "PreferenceLearner(tmp)"}

\* C15: after record_preference returns with a successful save, the
\* preferences file holds exactly the in-memory record sequence: a new
\* PreferenceLearner on the same storage path loads the same records in the
\* same order, after any sequence of record_preference calls.
C15_SavedIsLoaded ==
    (store_op = "record_preference" /\ disk = "ok") =>
        /\ preferences_file.state = "ok"
        /\ Len(preferences_file.data) = Len(preferences)
        /\ load(preferences_file) = preferences

\* C15 witness: record_preference has just saved two records that differ, a
\* liked one after one that is not.
C15_Witness ==
    /\ store_op = "record_preference"
    /\ disk = "ok"
    /\ Len(preferences) = 2
    /\ ~preferences[1].liked
    /\ preferences[2].liked
    /\ load(preferences_file) = preferences

\* C16: no mutating operation (record_preference, record_generation,
\* record_feedback, clear_old_preferences, import_preferences) lets a load or
\* save failure escape to its caller; when the save fails the call still
\* returns normally and the in-memory collection keeps the change.
C16_NoEscape ==
    [][ store_op' \in MutatingOps =>
            /\ escaped' = None
            /\ (store_op' \in RecordingOps /\ disk # "ok") =>
                  /\ Len(preferences') = Len(preferences) + 1
                  /\ SubSeq(preferences', 1, Len(preferences)) = preferences ]_vars

\* C17: constructing a PreferenceLearner on a storage path whose preferences
\* file is malformed does not raise and yields an empty collection, and so
\* does constructing it on a path without a preferences file.
C17_StartEmpty ==
    ( /\ store_op \in Constructions
      /\ \/ preferences_file.state = "missing"
         \/ read(preferences_file).tag = "raise" )
    => (preferences = <<>> /\ escaped = None)

\* C17 witness: a learner has just been constructed on the directory whose
\* preferences file a failed write left malformed.
C17_Witness ==
    /\ store_op = "PreferenceLearner(storage)"
    /\ preferences_file = Malformed
    /\ preferences = <<>>
    /\ escaped = None

\* C18: immediately after a PreferenceLearner is constructed on an empty
\* storage directory, the collection is empty and preferences.json exists in
\* that directory.
C18_FileCreated ==
    store_op = "PreferenceLearner(tmp)" =>
        /\ preferences = <<>>
        /\ preferences_file.state # "missing"

\* C19: export_preferences followed by import_preferences(file, merge=False)
\* yields a record sequence identical to the exporter's (same records, same
\* order, same liked flags and tags), whatever the importing store held
\* before, and that is also what the importing store persists.
C19_RoundTrip ==
    ( /\ store_op = "import_preferences(merge=False)"
      /\ escaped = None
      /\ exported # None )
    => /\ preferences = exported[1]
       /\ load(preferences_file) = exported[1]

\* C19 witness: two records that differ in liked flag and mood were exported
\* and have just been imported with merge=False.
C19_Witness ==
    /\ store_op = "import_preferences(merge=False)"
    /\ escaped = None
    /\ exported # None
    /\ Len(exported[1]) = 2
    /\ exported[1][1].liked /\ exported[1][1].mood = Some("calm")
    /\ ~exported[1][2].liked
    /\ preferences = exported[1]

\* C20: the queries (get_recommendations, get_favorite_moods,
\* get_favorite_activities, get_statistics) leave the in-memory collection
\* and the preferences file unchanged, and get_recommendations called twice
\* in a row with the same arguments returns the same sequence.
C20_ReadOnly ==
    [][ /\ store_op' \in QueryOps =>
              /\ preferences' = preferences
              /\ preferences_file' = preferences_file
        /\ ( /\ store_op = "get_recommendations"
             /\ store_op' = "get_recommendations"
             /\ query' = query )
           => recommendations' = recommendations ]_vars

\* C20 witness: get_statistics has just answered on a store of two records
\* that are also in the file.
C20_Witness ==
    /\ store_op = "get_statistics"
    /\ statistics # None
    /\ statistics[1].total_generations = 2
    /\ Len(preferences) = 2
    /\ preferences_file = JsonFile(dumps(preferences))

----------------------------------------------------------------------------
(***************************************************************************)
(* Properties of the summaries, checked under SpecStats.                   *)
(***************************************************************************)
LikedCount == Cardinality({ i \in 1..Len(preferences) : preferences[i].liked })

\* C21: get_statistics reports total_generations = number of records,
\* liked_count = number of liked records, disliked_count = total_generations
\* - liked_count and like_rate = liked_count / total_generations, 0 for an
\* empty store; 2 liked and 1 not liked give 3, 2, 1 and 2/3.
C21_Statistics ==
    statistics # None =>
        /\ statistics[1].total_generations = Len(preferences)
        /\ statistics[1].liked_count = LikedCount
        /\ statistics[1].disliked_count =
              statistics[1].total_generations - statistics[1].liked_count
        /\ IF preferences = <<>>
           THEN statistics[1].like_rate = <<0, 1>>
           ELSE statistics[1].like_rate =
                   <<statistics[1].liked_count, statistics[1].total_generations>>
        /\ (Len(preferences) = 3 /\ LikedCount = 2) =>
              /\ statistics[1].total_generations = 3
              /\ statistics[1].liked_count = 2
              /\ statistics[1].disliked_count = 1
              /\ statistics[1].like_rate = <<2, 3>>

\* C21 witness: get_statistics on two liked records followed by one that is
\* not liked.
C21_Witness ==
    /\ statistics # None
    /\ Len(preferences) = 3
    /\ preferences[1].liked /\ preferences[2].liked /\ ~preferences[3].liked
    /\ statistics[1].like_rate = <<2, 3>>
    /\ statistics[1].disliked_count = 1

----------------------------------------------------------------------------
(***************************************************************************)
(* Properties of record_generation, checked under SpecGeneration.          *)
(***************************************************************************)
\* What a dict holds under a key: None when the key is absent or holds None.
Held(member) == IF member.t = "str" THEN Some(member.v) ELSE None

\* C22: record_generation appends exactly one record, liked, for every prompt
\* and every metadata (also one without activity or mood); the record's
\* context, activity, mood and duration_ms are those of the metadata.
C22_GenerationLiked ==
    [][ store_op' = "record_generation" =>
            /\ Len(preferences') = Len(preferences) + 1
            /\ SubSeq(preferences', 1, Len(preferences)) = preferences
            /\ LET new == preferences'[Len(preferences')]
                   given == generated'[1]
               IN  /\ new.prompt = given.prompt
                   /\ new.liked = TRUE
                   /\ new.context = Held(given.metadata.context)
                   /\ new.activity = Held(given.metadata.activity)
                   /\ new.mood = Held(given.metadata.mood)
                   /\ IF given.metadata.duration_ms.t = "int"
                      THEN /\ new.duration_ms # None
                           /\ ToString(new.duration_ms[1]) = given.metadata.duration_ms.v
                      ELSE new.duration_ms = None ]_vars

\* C22 witness: record_generation was just given an empty metadata, after a
\* generation with a duration, and its record is liked and carries no tag.
C22_Witness ==
    /\ store_op = "record_generation"
    /\ generated # None
    /\ generated[1].metadata.activity = Absent
    /\ generated[1].metadata.mood = Absent
    /\ Len(preferences) = 2
    /\ preferences[1].duration_ms = Some(45000)
    /\ preferences[2].liked
    /\ preferences[2].activity = None
    /\ preferences[2].mood = None

----------------------------------------------------------------------------
(***************************************************************************)
(* The retry helper.                                                       *)
(***************************************************************************)
HelperCalled == op = "_make_request_with_retry"

Is200(s) == s.answer.kind = "response" /\ s.answer.status = 200
Is429(s) == s.answer.kind = "response" /\ s.answer.status = 429
IsFailure(s) == s.answer.kind # "response"

\* C23: whatever the remote API answers and whatever max_retries >= 1 is,
\* _make_request_with_retry issues at least one and at most max_retries
\* requests and ends by returning a response or raising RateLimitError or
\* APIError, and it issues no request after a 200 response.
C23_Terminates ==
    HelperCalled =>
        /\ Len(sent) >= 1
        /\ Len(sent) <= max_retries
        /\ \/ returned # None
           \/ raised # None /\ raised[1].cls \in {"RateLimitError", "APIError"}
        /\ \A i \in 1..(Len(sent) - 1) : ~Is200(script[i])

\* What of C23 the helper keeps: it ends, by a response or an exception, after
\* at most max_retries requests, none of them after a 200 response.
C23_Bounded ==
    HelperCalled =>
        /\ Len(sent) <= max_retries
        /\ (returned # None) # (raised # None)
        /\ \A i \in 1..(Len(sent) - 1) : ~Is200(script[i])
        /\ returned # None => Is200(script[Len(sent)])

C23_ValueError ==
    /\ HelperCalled
    /\ raised # None
    /\ raised[1].cls = "ValueError"

\* C24: in _make_request_with_retry exactly one sleep separates each two
\* consecutive attempts and none follows the last attempt; with attempts
\* counted from 0, the sleep after a transport failure at attempt i is 2^i
\* seconds, and the sleep after a 429 at attempt i is the Retry-After header
\* if the response has one and 2^i seconds otherwise.
C24_Backoff ==
    HelperCalled =>
        /\ Len(slept) = IF sent = <<>> THEN 0 ELSE Len(sent) - 1
        /\ \A n \in 1..Len(slept) :
              LET i == n - 1
                  s == script[n]
              IN  /\ IsFailure(s) => slept[n] = 2 ^ i
                  /\ (Is429(s) /\ s.retry_after = Absent) => slept[n] = 2 ^ i
                  /\ (Is429(s) /\ s.retry_after # Absent) =>
                        ToString(slept[n]) = s.retry_after.v

C24_Witness ==
    /\ HelperCalled
    /\ Len(sent) = 3
    /\ Is429(script[1])
    /\ script[1].retry_after = JStr("7")
    /\ IsFailure(script[2])
    /\ slept = <<7, 2>>
    /\ IsFailure(script[3])
    /\ raised # None

IsError(s) == s.answer.kind = "response" /\ s.answer.status \notin {200, 429}

\* What C25 expects of the attempt n that met the response s.
RaisedAt(n, s) ==
    /\ n = Len(sent)
    /\ Len(slept) = n - 1
    /\ raised # None
    /\ IF s.answer.status = 400 /\ s.answer.json.type = JStr("bad_prompt")
       THEN raised[1].cls = "CopyrightError"
       ELSE /\ raised[1].cls = "APIError"
            /\ raised[1].status_code = Some(s.answer.status)

\* C25: _make_request_with_retry never retries a response whose status is
\* 400, 401 or anything else than 200 and 429: on that attempt it raises
\* CopyrightError for a 400 bad_prompt and otherwise an APIError carrying the
\* status code, without a sleep or a further request, however many attempts
\* remain.
C25_NotRetried ==
    HelperCalled =>
        \A n \in 1..Len(sent) : IsError(script[n]) => RaisedAt(n, script[n])

\* The same of the error responses whose body the helper can decode.
C25_DecodedNotRetried ==
    HelperCalled =>
        \A n \in 1..Len(sent) :
            (IsError(script[n]) /\ (script[n].answer.status = 400 => script[n].json_type))
                => RaisedAt(n, script[n])

C25_Retried ==
    /\ HelperCalled
    /\ max_retries = 2
    /\ IsError(script[1])
    /\ Is200(script[2])
    /\ Len(sent) = 2
    /\ slept = <<1>>
    /\ returned # None

----------------------------------------------------------------------------
(***************************************************************************)
(* generate_simple against the retry helper.                               *)
(***************************************************************************)
\* The answers of the server of the last call, one per attempt the helper can
\* make, from an API that sends no Retry-After and declares its bodies JSON.
ScriptOf(srv) ==
    [n \in 1..max_retries |-> Scripted(Answer(srv, n - 1), Absent, TRUE)]

\* What the helper would end with on the session and the answers the last
\* call met.
HelperWould == make_request_with_retry(session_at_call, ScriptOf(server), Payload(args)).reply

\* C26: generate_simple and _make_request_with_retry agree on every sequence
\* of answers: generate_simple returns a success result exactly when the
\* helper would return a response, and a rate-limit result exactly when the
\* helper would raise RateLimitError.
C26_Equivalent ==
    SimpleCalled =>
        /\ ret # None
        /\ Category(ret[1]) = "Success" <=> HelperWould.val # None
        /\ Category(ret[1]) = "RateLimited" <=>
              (HelperWould.exc # None /\ HelperWould.exc[1].cls = "RateLimitError")

\* 429 then 200: generate_simple stops at the 429, the helper goes on to the 200.
C26_Diverges ==
    /\ SimpleCalled
    /\ server.first \in Responses429
    /\ server.rest \in Responses200
    /\ max_retries >= 2
    /\ ret # None
    /\ Category(ret[1]) = "RateLimited"
    /\ Len(sent) = 1
    /\ HelperWould.val # None

\* With a single attempt allowed the two agree on success and on the rate limit.
C26_SingleAttempt ==
    (SimpleCalled /\ max_retries = 1) =>
        /\ ret # None
        /\ (Category(ret[1]) = "Success" /\ args.duration_ms # None) => HelperWould.val # None
        /\ HelperWould.val # None => Category(ret[1]) \in {"Success", "GenericError"}
        /\ Category(ret[1]) = "RateLimited" <=>
              (HelperWould.exc # None /\ HelperWould.exc[1].cls = "RateLimitError")

----------------------------------------------------------------------------
(***************************************************************************)
(* The session of a MusicGenerator.                                        *)
(***************************************************************************)
\* The sessions of the generator that are open: the one self.session refers
\* to and the one that was replaced while open.
OpenSessions == (IF session = "open" THEN 1 ELSE 0) + (IF leaked THEN 1 ELSE 0)

\* No request goes out on a session that has been closed.
NoRequestWhenClosed == (op # "none" /\ session_at_call = "closed") => sent = <<>>

\* None at first; open after __aenter__ and after the helper found no
\* session; closed after __aexit__.
Lifecycle ==
    /\ session = "None"
    /\ [][ /\ aenter => session' = "open"
           /\ (request_with_retry /\ session = "None") => session' = "open"
           /\ (aexit /\ session # "None") => session' = "closed" ]_vars

\* C27: the session of a MusicGenerator is None after construction, open
\* after entering the async context or after the retry helper created it, and
\* closed after leaving the context; a generator never has more than one
\* session open, and no request is issued on a closed session.
C27_SessionLifecycle ==
    /\ Lifecycle
    /\ [](OpenSessions <= 1)
    /\ []NoRequestWhenClosed

\* All of C27 but the bound on the sessions that are open.
C27_Transitions ==
    /\ Lifecycle
    /\ []NoRequestWhenClosed

C27_TwoOpen ==
    /\ session = "open"
    /\ leaked

----------------------------------------------------------------------------
(***************************************************************************)
(* The store as a log.                                                     *)
(***************************************************************************)
\* Every record the collection held is still there, at its place.
Kept ==
    /\ Len(preferences') >= Len(preferences)
    /\ SubSeq(preferences', 1, Len(preferences)) = preferences

RemovingOps == {"clear_old_preferences", "import_preferences(merge=False)"}

\* C28: record_preference, record_generation and record_feedback make the
\* collection longer by exactly one record, the new one last, every earlier
\* record and their order unchanged; of the operations of a learner only
\* clear_old_preferences and import_preferences with merge=False remove
\* records.
C28_AppendOnly ==
    [][ /\ store_op' \in RecordingOps =>
              /\ Len(preferences') = Len(preferences) + 1
              /\ Kept
        /\ store_op' \notin (RemovingOps \cup Constructions) => Kept ]_vars

C28_Witness ==
    /\ store_op \in RecordingOps
    /\ Len(preferences) = 2
    /\ preferences[1] # preferences[2]

----------------------------------------------------------------------------
(***************************************************************************)
(* The generate_music_simple tool, checked under SpecTool.                 *)
(***************************************************************************)
OutOfRange(duration_ms) ==
    /\ duration_ms # None
    /\ duration_ms[1] < min_duration_ms \/ duration_ms[1] > max_duration_ms

\* C29: generate_music_simple generates, then saves the file, then records
\* the preference: a record is appended only after the generation returned
\* success and the file manager saved the audio; a duration outside
\* [min_duration_ms, max_duration_ms], a failed generation or a failed save
\* appends no record, and an out-of-range duration sends no request either.
C29_GenerateSaveRecord ==
    [][ LET recorded == preferences' # preferences
            n == Len(steps')
        IN  /\ recorded <=> "record_generation" \in Elems(steps')
            /\ recorded =>
                  /\ n >= 3
                  /\ \A i \in 1..(n - 2) : steps'[i] = "request"
                  /\ steps'[n - 1] = "save_music"
                  /\ steps'[n] = "record_generation"
                  /\ ret' # None /\ ret'[1].success
                  /\ tool'.save = "saved"
                  /\ Len(preferences') = Len(preferences) + 1
            /\ OutOfRange(tool'.duration_ms) =>
                  /\ ~recorded
                  /\ steps' = <<>>
                  /\ sent' = sent
            /\ (~OutOfRange(tool'.duration_ms) /\ (ret' = None \/ ~ret'[1].success)) =>
                  ~recorded
            /\ tool'.save # "saved" => ~recorded ]_vars

C29_Witness ==
    /\ steps = <<"request", "save_music", "record_generation">>
    /\ tool_result # None
    /\ tool_result[1].success
    /\ Len(preferences) = 2
    /\ preferences[2].duration_ms = Some(default_duration_ms)

\* The calls C29 excludes happen: a duration out of range, a failed
\* generation and a failed save, each leaving the store as it was.
C29_Rejected ==
    /\ OutOfRange(tool.duration_ms)
    /\ steps = <<>>
    /\ tool_result # None /\ ~tool_result[1].success
C29_SaveFailed ==
    /\ steps = <<"request", "save_music raises">>
    /\ tool.enabled
    /\ preferences = <<>>

----------------------------------------------------------------------------
(***************************************************************************)
(* Two writers on one file, checked under SpecTwo.                         *)
(***************************************************************************)
\* C30: the store is not safe for several writers. A learner that records
\* rewrites the whole file from its own in-memory collection, so the file
\* then holds that collection and nothing else; two learners on one storage
\* path that each record one preference can so leave a file with only one of
\* the two records.
C30_WholeFileRewritten ==
    /\ store_op = "record_preference" => preferences_file = JsonFile(dumps(preferences))
    /\ store_op = "second.record_preference" => preferences_file = JsonFile(dumps(second))

\* The lost update: each learner has recorded one preference, the second one
\* last, and the file holds the record of the second only.
C30_Witness ==
    /\ store_op = "second.record_preference"
    /\ Len(preferences) = 1
    /\ Len(second) = 1
    /\ preferences[1].prompt # second[1].prompt
    /\ Len(preferences_file.data) = 1
    /\ load(preferences_file) = second

====
